---- MODULE Spec2Model ----
(***************************************************************************)
(* Model of SAE_Graphes: GrapheValue (graphe.py), AlgoDijkstra (algos.py)  *)
(* and ReseauSocial (reseau.py).                                           *)
(*                                                                         *)
(* A weight matrix is a function [0..n-1 -> [0..n-1 -> weight]], where the *)
(* weight math.inf ("no edge") is the integer Inf, larger than every sum   *)
(* of finite weights the model can build.  A Python call either returns a  *)
(* value or raises: an operation's outcome is the record                   *)
(* [exc |-> <exception name or "none">, val |-> <returned value>].         *)
(***************************************************************************)
EXTENDS Integers, Sequences, FiniteSets, TLC

\* Largest number of vertices of the graphs explored.
MaxN == 3

\* Largest number of edges (finite matrix entries) of the graphs explored.
MaxEdges == 3

\* The finite weights the matrix entries are drawn from.
Weights == {-1, 0, 1}

\* math.inf
Inf == 1000000

\* None, and a value that is not None
None == <<>>

Some(x) == <<x>>

Ok(v) == [exc |-> "none", val |-> v]

Raise(e) == [exc |-> e, val |-> <<>>]

\* range(n) as a sequence
Range(n) == [k \in 1..n |-> k - 1]

Elems(seq) == {seq[k] : k \in 1..Len(seq)}

\* inf + w = inf; weights are finite
Plus(a, w) == IF a = Inf THEN Inf ELSE a + w

RECURSIVE SumSeq(_)
SumSeq(seq) == IF Len(seq) = 0 THEN 0
               ELSE LET r == SumSeq(Tail(seq))
                    IN IF Head(seq) = Inf \/ r = Inf THEN Inf ELSE Head(seq) + r

RECURSIVE MaxSeq(_)
MaxSeq(seq) == IF Len(seq) = 1 THEN seq[1]
               ELSE LET r == MaxSeq(Tail(seq))
                    IN IF Head(seq) >= r THEN Head(seq) ELSE r

(***************************************************************************)
(* graphe.py                                                               *)
(***************************************************************************)

nb_sommets(m) == Cardinality(DOMAIN m)

\* Python and numpy accept the indices -n..n-1 and raise IndexError outside.
IndexOk(m, s) == s \in (0 - nb_sommets(m))..(nb_sommets(m) - 1)

\* A negative index counts from the end.
Idx(m, s) == IF s < 0 THEN s + nb_sommets(m) ELSE s

\* The count of finite entries; the code returns it divided by 2.
nb_aretes(m) ==
  [num |-> Cardinality({ij \in (DOMAIN m) \X (DOMAIN m) : m[ij[1]][ij[2]] # Inf}),
   den |-> 2]

degre_sommet(m, s) ==
  IF ~IndexOk(m, s) THEN Raise("IndexError")
  ELSE Ok(Cardinality({i \in DOMAIN m : m[Idx(m, s)][i] # Inf}))

degres_sommets(m) == [k \in 1..nb_sommets(m) |-> degre_sommet(m, k - 1).val]

\* The loop body indexes matrice[s][i]: with no vertex it never runs.
successeurs(m, s) ==
  IF nb_sommets(m) > 0 /\ ~IndexOk(m, s) THEN Raise("IndexError")
  ELSE LET Edge(i) == m[Idx(m, s)][i] # Inf
       IN Ok(SelectSeq(Range(nb_sommets(m)), Edge))

predecesseurs(m, s) ==
  IF nb_sommets(m) > 0 /\ ~IndexOk(m, s) THEN Raise("IndexError")
  ELSE LET Edge(i) == m[i][Idx(m, s)] # Inf
       IN Ok(SelectSeq(Range(nb_sommets(m)), Edge))

\* The while loop of descendants: file is the queue, descs the marked set.
RECURSIVE descendantsLoop(_, _, _)
descendantsLoop(m, file, descs) ==
  IF Len(file) = 0 THEN Ok(descs)
  ELSE LET succs == successeurs(m, Head(file))
       IN IF succs.exc # "none" THEN succs
          ELSE LET New(x) == x \notin descs
                   added == SelectSeq(succs.val, New)
               IN descendantsLoop(m, Tail(file) \o added, descs \cup Elems(added))

\* Mutant of descendants: the successors found are never enqueued.
descendants_Direct(m, s) ==
  LET succs == successeurs(m, s)
  IN IF succs.exc # "none" THEN succs ELSE Ok(Elems(succs.val))

descendants(m, s) == descendantsLoop(m, <<s>>, {})

RECURSIVE ascendantsLoop(_, _, _)
ascendantsLoop(m, file, ascs) ==
  IF Len(file) = 0 THEN Ok(ascs)
  ELSE LET preds == predecesseurs(m, Head(file))
       IN IF preds.exc # "none" THEN preds
          ELSE LET New(x) == x \notin ascs
                   added == SelectSeq(preds.val, New)
               IN ascendantsLoop(m, Tail(file) \o added, ascs \cup Elems(added))

ascendants(m, s) == ascendantsLoop(m, <<s>>, {})

\* Mutant of cfc_sommet: .union({s}) is missing.
cfc_sommet_NoSelf(g, s) ==
  LET d == descendants(g, s)
  IN IF d.exc # "none" THEN d
     ELSE LET a == ascendants(g, s)
          IN IF a.exc # "none" THEN a
             ELSE Ok(d.val \cap a.val)

cfc_sommet(g, s) ==
  LET d == descendants(g, s)
  IN IF d.exc # "none" THEN d
     ELSE LET a == ascendants(g, s)
          IN IF a.exc # "none" THEN a
             ELSE Ok((d.val \cap a.val) \cup {s})

\* The comprehension keeps s when no s_bis < s has an equal component.
cfc_graphe(m) ==
  LET Keep(s) == \A s_bis \in 0..(s - 1) : cfc_sommet(m, s_bis).val # cfc_sommet(m, s).val
      kept == SelectSeq(Range(nb_sommets(m)), Keep)
  IN [k \in 1..Len(kept) |-> cfc_sommet(m, kept[k]).val]

graphe_vide(size) == [i \in 0..(size - 1) |-> [j \in 0..(size - 1) |-> Inf]]

\* The two nested loops of graphe_symetrique, k = i * n + j.
RECURSIVE symLoop(_, _, _)
symLoop(m, sym, k) ==
  LET n == nb_sommets(m)
  IN IF k >= n * n THEN sym
     ELSE LET i == k \div n
              j == k % n
          IN IF m[i][j] # Inf
             THEN symLoop(m, [[sym EXCEPT ![i][j] = m[i][j]] EXCEPT ![j][i] = m[i][j]], k + 1)
             ELSE symLoop(m, sym, k + 1)

\* Mutant of graphe_symetrique: the loops write into self.matrice.
graphe_symetrique_InPlace(m) ==
  [self |-> symLoop(m, m, 0), ret |-> symLoop(m, m, 0)]

\* self is the receiver's matrix after the call, ret the returned graph's.
graphe_symetrique(m) ==
  [self |-> m, ret |-> symLoop(m, graphe_vide(nb_sommets(m)), 0)]

cc_sommet(m, s) == cfc_sommet(graphe_symetrique(m).ret, s)

cc_graphe(m) ==
  LET Keep(s) == \A s_bis \in 0..(s - 1) : cc_sommet(m, s_bis).val # cc_sommet(m, s).val
      kept == SelectSeq(Range(nb_sommets(m)), Keep)
  IN [k \in 1..Len(kept) |-> cc_sommet(m, kept[k]).val]

est_connexe(m) == Len(cc_graphe(m)) = 1

\* Mutant of MaxLen: the last of the largest components.
MaxLen_Last(composantes) ==
  composantes[CHOOSE k \in 1..Len(composantes) :
                /\ \A l \in 1..Len(composantes) :
                     Cardinality(composantes[l]) <= Cardinality(composantes[k])
                /\ \A l \in (k + 1)..Len(composantes) :
                     Cardinality(composantes[l]) < Cardinality(composantes[k])]

\* max(composantes, key=len): the first of the largest components.
MaxLen(composantes) ==
  composantes[CHOOSE k \in 1..Len(composantes) :
                /\ \A l \in 1..Len(composantes) :
                     Cardinality(composantes[l]) <= Cardinality(composantes[k])
                /\ \A l \in 1..(k - 1) :
                     Cardinality(composantes[l]) < Cardinality(composantes[k])]

\* The orders in which iterating over the set c may enumerate it.
Enumerations(c) ==
  {e \in [1..Cardinality(c) -> c] : \A a, b \in 1..Cardinality(c) : e[a] = e[b] => a = b}

\* The matrix built by the loops of plus_grosse_cc; ordre is the enumeration
\* of plus_grosse: index_map[ordre[k]] = k - 1.
sous_matrice(m, plus_grosse, n, ordre) ==
  [new_index \in 0..(n - 1) |-> [c \in 0..(n - 1) |->
     LET old_index == ordre[new_index + 1]
         succ == ordre[c + 1]
     IN IF succ \in Elems(successeurs(m, old_index).val) /\ succ \in plus_grosse
        THEN m[old_index][succ]
        ELSE Inf]]

\* composantes is self.cc_graphe(), of which max() takes plus_grosse (max()
\* of an empty list raises ValueError).
plus_grosse_cc(m, composantes, plus_grosse, ordre) ==
  IF Len(composantes) = 0 THEN [self |-> m, exc |-> "ValueError", val |-> <<>>]
  ELSE [self |-> m, exc |-> "none",
        val |-> sous_matrice(m, plus_grosse, Cardinality(plus_grosse), ordre)]

(***************************************************************************)
(* algos.py                                                                *)
(***************************************************************************)

\* Mutant of MinUnvisited: min(unvisited), the key forgotten.
MinUnvisited_NoKey(distances, unvisited) ==
  CHOOSE c \in unvisited : \A u \in unvisited : c <= u

\* min(unvisited, key=lambda node: distances[node]): the first minimal
\* element met; the set {0..n-1} of small integers is iterated in
\* ascending order.
MinUnvisited(distances, unvisited) ==
  CHOOSE c \in unvisited :
    \A u \in unvisited :
      distances[c] < distances[u] \/ (distances[c] = distances[u] /\ c <= u)

\* Mutant of Relax: the distance of current is left out of alt_distance.
Relax_EdgeOnly(m, st, current, neighbour) ==
  IF m[current][neighbour] # Inf
  THEN LET alt_distance == m[current][neighbour]
       IN IF alt_distance < st.distances[neighbour]
          THEN [st EXCEPT !.distances[neighbour] = alt_distance,
                          !.predecesseurs[neighbour] = Some(current)]
          ELSE st
  ELSE st

\* The body of the for loop, for one neighbour.
Relax(m, st, current, neighbour) ==
  IF m[current][neighbour] # Inf
  THEN LET alt_distance == Plus(st.distances[current], m[current][neighbour])
       IN IF alt_distance < st.distances[neighbour]
          THEN [st EXCEPT !.distances[neighbour] = alt_distance,
                          !.predecesseurs[neighbour] = Some(current)]
          ELSE st
  ELSE st

\* Mutant of RelaxFrom: the relaxation tests alt_distance <= distances[neighbour].
RECURSIVE RelaxFrom_Leq(_, _, _, _)
RelaxFrom_Leq(m, st, current, neighbour) ==
  IF neighbour >= nb_sommets(m) THEN st
  ELSE LET alt_distance == Plus(st.distances[current], m[current][neighbour])
           relaxed == IF m[current][neighbour] # Inf /\ alt_distance <= st.distances[neighbour]
                      THEN [st EXCEPT !.distances[neighbour] = alt_distance,
                                      !.predecesseurs[neighbour] = Some(current)]
                      ELSE st
       IN RelaxFrom_Leq(m, relaxed, current, neighbour + 1)

\* for neighbour in range(n), from neighbour on.
RECURSIVE RelaxFrom(_, _, _, _)
RelaxFrom(m, st, current, neighbour) ==
  IF neighbour >= nb_sommets(m) THEN st
  ELSE RelaxFrom(m, Relax(m, st, current, neighbour), current, neighbour + 1)

\* One iteration of the while loop.
Iteration(m, st) ==
  LET current == MinUnvisited(st.distances, st.unvisited)
  IN RelaxFrom(m, [st EXCEPT !.unvisited = @ \ {current}], current, 0)

\* Mutant of Locals: predecesseurs = [s] * n.
Locals_PredSource(m, s) ==
  [distances |-> [v \in DOMAIN m |-> IF v = Idx(m, s) THEN 0 ELSE Inf],
   predecesseurs |-> [v \in DOMAIN m |-> Some(s)],
   unvisited |-> DOMAIN m]

\* The locals before the loop; distances[s] = 0 is a list store.
Locals(m, s) ==
  [distances |-> [v \in DOMAIN m |-> IF v = Idx(m, s) THEN 0 ELSE Inf],
   predecesseurs |-> [v \in DOMAIN m |-> None],
   unvisited |-> DOMAIN m]

RECURSIVE WhileUnvisited(_, _)
WhileUnvisited(m, st) ==
  IF st.unvisited = {} THEN st ELSE WhileUnvisited(m, Iteration(m, st))

calculPCCSommet(m, s) ==
  IF ~IndexOk(m, s) THEN Raise("IndexError")
  ELSE LET st == WhileUnvisited(m, Locals(m, s))
       IN Ok(<<st.distances, st.predecesseurs>>)

calculPCCTousSommets(m) ==
  <<[k \in 1..nb_sommets(m) |-> calculPCCSommet(m, k - 1).val[1]],
    [k \in 1..nb_sommets(m) |-> calculPCCSommet(m, k - 1).val[2]]>>

(***************************************************************************)
(* reseau.py                                                               *)
(***************************************************************************)

\* A list of distances as a sequence.
AsSeq(m, distances) == [k \in 1..nb_sommets(m) |-> distances[k - 1]]

\* num / den, kept as the pair.  Python raises ZeroDivisionError on a zero
\* divisor; a numpy scalar divided by zero is inf or nan and nothing is
\* raised: the pair then keeps its zero divisor.
Divide(num, den, numpy) ==
  IF den = 0 /\ ~numpy THEN Raise("ZeroDivisionError")
  ELSE Ok([num |-> num, den |-> den])

\* total_edges and max_edges are Python floats.
densite(m) ==
  LET total_nodes == nb_sommets(m)
      max_edges == [num |-> total_nodes * (total_nodes - 1), den |-> 2]
  IN IF max_edges.num = 0 THEN Raise("ZeroDivisionError")
     ELSE Ok([num |-> nb_aretes(m), den |-> max_edges])

\* ReseauSocial.degre_sommet: the comprehension indexes matrice[s][i].
reseau_degre_sommet(m, s) ==
  IF nb_sommets(m) > 0 /\ ~IndexOk(m, s) THEN Raise("IndexError")
  ELSE Ok(Cardinality({i \in DOMAIN m : m[Idx(m, s)][i] # Inf}))

degre_moyen(m) ==
  Divide(SumSeq([k \in 1..nb_sommets(m) |-> reseau_degre_sommet(m, k - 1).val]),
         nb_sommets(m), FALSE)

\* A distance written by a relaxation (with its predecessor) is a numpy
\* scalar; 0 and math.inf, written before the loop, are Python numbers.
Relaxed(m, res) ==
  \E v \in DOMAIN m : res[2][v] # None

proximite_sommet(m, s) ==
  LET r == calculPCCSommet(m, s)
  IN IF r.exc # "none" THEN r
     ELSE Divide(SumSeq(AsSeq(m, r.val[1])), nb_sommets(m) - 1, Relaxed(m, r.val))

\* The for loop of diametre, from source s on.
RECURSIVE diametreLoop(_, _, _)
diametreLoop(m, max_distance, s) ==
  IF s >= nb_sommets(m) THEN max_distance
  ELSE LET d == MaxSeq(AsSeq(m, calculPCCSommet(m, s).val[1]))
       IN diametreLoop(m, IF max_distance >= d THEN max_distance ELSE d, s + 1)

diametre(m) == diametreLoop(m, 0, 0)

longueur_moyenne(m) ==
  LET n == nb_sommets(m)
      rows == [k \in 1..n |-> SumSeq(AsSeq(m, calculPCCSommet(m, k - 1).val[1]))]
  IN Divide(SumSeq(rows), n * (n - 1),
            \E k \in 1..n : Relaxed(m, calculPCCSommet(m, k - 1).val))

(***************************************************************************)
(* State: a GrapheValue g (matrice), an AlgoDijkstra built on it (its      *)
(* stored matrices), the call the caller has just made with its outcome    *)
(* (op is "idle" between two calls), and one running call of               *)
(* calculPCCSommet (its locals and position).                              *)
(***************************************************************************)
VARIABLES matrice, self_distances, self_predecesseurs,
          op, arg, exc, result,
          pc, loc_s, loc_distances, loc_predecesseurs, loc_unvisited, removed

vars == <<matrice, self_distances, self_predecesseurs, op, arg, exc, result,
          pc, loc_s, loc_distances, loc_predecesseurs, loc_unvisited, removed>>

algo == <<self_distances, self_predecesseurs>>

call == <<op, arg, exc, result>>

loop == <<pc, loc_s, loc_distances, loc_predecesseurs, loc_unvisited, removed>>

Sommets(n) == 0..(n - 1)

\* The matrix with n vertices, the edges E and the weights w.
Matrice(n, E, w) ==
  [i \in Sommets(n) |-> [j \in Sommets(n) |-> IF <<i, j>> \in E THEN w[<<i, j>>] ELSE Inf]]

\* The edge sets explored for n vertices.
EdgeSets(n) == {E \in SUBSET (Sommets(n) \X Sommets(n)) : Cardinality(E) <= MaxEdges}

\* The vertex arguments tried: the indices, and beyond them on both sides.
Args(m) == (0 - nb_sommets(m) - 1)..nb_sommets(m)

\* g = GrapheValue(mat); AlgoDijkstra(g) stores calculPCCTousSommets().
Init ==
  /\ \E n \in 0..MaxN : \E E \in EdgeSets(n) : \E w \in [E -> Weights] :
       matrice = Matrice(n, E, w)
  /\ self_distances = calculPCCTousSommets(matrice)[1]
  /\ self_predecesseurs = calculPCCTousSommets(matrice)[2]
  /\ op = "idle" /\ arg = None /\ exc = "none" /\ result = None
  /\ pc = "idle" /\ loc_s = 0 /\ loc_distances = <<>> /\ loc_predecesseurs = <<>>
  /\ loc_unvisited = {} /\ removed = <<>>

\* A call that leaves the receiver and the algorithm alone.
Returns(name, a, r) ==
  /\ op = "idle"
  /\ op' = name /\ arg' = a /\ exc' = r.exc /\ result' = r.val
  /\ UNCHANGED <<matrice, algo, loop>>

NbSommets == Returns("nb_sommets", None, Ok(nb_sommets(matrice)))

NbAretes == Returns("nb_aretes", None, Ok(nb_aretes(matrice)))

DegreSommet == \E s \in Args(matrice) : Returns("degre_sommet", s, degre_sommet(matrice, s))

DegresSommets == Returns("degres_sommets", None, Ok(degres_sommets(matrice)))

Successeurs == \E s \in Args(matrice) : Returns("successeurs", s, successeurs(matrice, s))

Predecesseurs == \E s \in Args(matrice) : Returns("predecesseurs", s, predecesseurs(matrice, s))

Descendants == \E s \in Args(matrice) : Returns("descendants", s, descendants(matrice, s))

Ascendants == \E s \in Args(matrice) : Returns("ascendants", s, ascendants(matrice, s))

CfcGraphe == Returns("cfc_graphe", None, Ok(cfc_graphe(matrice)))

CcSommet == \E s \in Args(matrice) : Returns("cc_sommet", s, cc_sommet(matrice, s))

CcGraphe == Returns("cc_graphe", None, Ok(cc_graphe(matrice)))

EstConnexe == Returns("est_connexe", None, Ok(est_connexe(matrice)))

GrapheSymetrique ==
  LET r == graphe_symetrique(matrice)
  IN /\ op = "idle"
     /\ matrice' = r.self
     /\ op' = "graphe_symetrique" /\ arg' = None /\ exc' = "none" /\ result' = r.ret
     /\ UNCHANGED <<algo, loop>>

PlusGrosseCc ==
  /\ op = "idle"
  /\ \E composantes \in {cc_graphe(matrice)} :
     \E plus_grosse \in {IF Len(composantes) = 0 THEN {} ELSE MaxLen(composantes)} :
     \E ordre \in Enumerations(plus_grosse) :
       LET r == plus_grosse_cc(matrice, composantes, plus_grosse, ordre)
       IN /\ matrice' = r.self
          /\ op' = "plus_grosse_cc" /\ arg' = None /\ exc' = r.exc /\ result' = r.val
          /\ UNCHANGED <<algo, loop>>

\* The caller is done with the outcome and goes on to its next call.
NextCall ==
  /\ op # "idle"
  /\ op' = "idle" /\ arg' = None /\ exc' = "none" /\ result' = None
  /\ UNCHANGED <<matrice, algo, loop>>

CalculPCCSommet ==
  \E s \in Args(matrice) : Returns("calculPCCSommet", s, calculPCCSommet(matrice, s))

CalculPCCTousSommets ==
  Returns("calculPCCTousSommets", None, Ok(calculPCCTousSommets(matrice)))

Densite == Returns("densite", None, densite(matrice))

ReseauDegreSommet ==
  \E s \in Args(matrice) : Returns("reseau_degre_sommet", s, reseau_degre_sommet(matrice, s))

DegreMoyen == Returns("degre_moyen", None, degre_moyen(matrice))

ProximiteSommet ==
  \E s \in Args(matrice) : Returns("proximite_sommet", s, proximite_sommet(matrice, s))

Diametre == Returns("diametre", None, Ok(diametre(matrice)))

LongueurMoyenne == Returns("longueur_moyenne", None, longueur_moyenne(matrice))

Next ==
  \/ NbSommets \/ NbAretes \/ DegreSommet \/ DegresSommets
  \/ Successeurs \/ Predecesseurs \/ Descendants \/ Ascendants
  \/ CfcGraphe \/ CcSommet \/ CcGraphe \/ EstConnexe
  \/ GrapheSymetrique \/ PlusGrosseCc
  \/ CalculPCCSommet \/ CalculPCCTousSommets
  \/ Densite \/ ReseauDegreSommet \/ DegreMoyen \/ ProximiteSommet
  \/ Diametre \/ LongueurMoyenne
  \/ NextCall

Spec == Init /\ [][Next]_vars

(***************************************************************************)
(* calculPCCSommet(s), one iteration of its while loop at a time.          *)
(***************************************************************************)

\* Lines 85-89, for a vertex s of the graph.
Begin ==
  /\ pc = "idle"
  /\ \E s \in DOMAIN matrice :
       LET st == Locals(matrice, s)
       IN /\ loc_s' = s
          /\ loc_distances' = st.distances
          /\ loc_predecesseurs' = st.predecesseurs
          /\ loc_unvisited' = st.unvisited
  /\ removed' = <<>>
  /\ pc' = "while"
  /\ UNCHANGED <<matrice, algo, call>>

\* Lines 92-100; removed records the vertex taken, with its tentative
\* distance and its predecessor when it was taken.
LoopIteration ==
  /\ pc = "while"
  /\ loc_unvisited # {}
  /\ LET st == [distances |-> loc_distances, predecesseurs |-> loc_predecesseurs,
                unvisited |-> loc_unvisited]
         current == MinUnvisited(loc_distances, loc_unvisited)
         nxt == Iteration(matrice, st)
     IN /\ loc_distances' = nxt.distances
        /\ loc_predecesseurs' = nxt.predecesseurs
        /\ loc_unvisited' = nxt.unvisited
        /\ removed' = Append(removed, [node |-> current,
                                       distance |-> loc_distances[current],
                                       predecesseur |-> loc_predecesseurs[current]])
  /\ UNCHANGED <<matrice, algo, call, pc, loc_s>>

\* Line 102.
Return ==
  /\ pc = "while"
  /\ loc_unvisited = {}
  /\ pc' = "done"
  /\ UNCHANGED <<matrice, algo, call, loc_s, loc_distances, loc_predecesseurs,
                 loc_unvisited, removed>>

NextDijkstra == Begin \/ LoopIteration \/ Return

SpecDijkstra == Init /\ [][NextDijkstra]_vars

(***************************************************************************)
(* Reference notions the properties are stated with.                       *)
(***************************************************************************)

\* Every edge weight is >= 0 (math.inf included).
NonNeg(m) == \A i, j \in DOMAIN m : m[i][j] >= 0

Least(S) == CHOOSE x \in S : \A y \in S : x <= y

\* The least weight of a directed path of at most k edges from a to each
\* vertex, Inf where there is none.
RECURSIVE PathWeights(_, _, _)
PathWeights(m, a, k) ==
  IF k = 0 THEN [v \in DOMAIN m |-> IF v = a THEN 0 ELSE Inf]
  ELSE LET before == PathWeights(m, a, k - 1)
       IN [v \in DOMAIN m |->
             Least({before[v]} \cup
                   {Plus(before[u], m[u][v]) : u \in {x \in DOMAIN m : m[x][v] # Inf}})]

\* With weights >= 0 a lightest path repeats no vertex: at most n - 1 edges.
ShortestDistance(m, a) == PathWeights(m, a, nb_sommets(m))

\* The vertices k or fewer edges away from those of S, along the edges E.
RECURSIVE Within(_, _, _)
Within(E, S, k) ==
  IF k = 0 THEN S
  ELSE Within(E, S \cup {e[2] : e \in {f \in E : f[1] \in S}}, k - 1)

Edges(m) == {e \in (DOMAIN m) \X (DOMAIN m) : m[e[1]][e[2]] # Inf}

\* v can be reached from u by a directed path (of any length, 0 included).
Reachable(m, u, v) == v \in Within(Edges(m), {u}, nb_sommets(m))

\* u and v are joined by a path that ignores the direction of the edges.
Joined(m, u, v) ==
  v \in Within(Edges(m) \cup {<<e[2], e[1]>> : e \in Edges(m)}, {u}, nb_sommets(m))

\* Following the predecessors from x back to a, at most fuel steps: whether
\* a is reached along existing edges, and the weight of the edges followed.
RECURSIVE Back(_, _, _, _, _)
Back(m, p, a, x, fuel) ==
  IF x = a THEN [ok |-> TRUE, steps |-> 0, weight |-> 0]
  ELSE IF fuel = 0 \/ p[x] = None THEN [ok |-> FALSE, steps |-> 0, weight |-> 0]
  ELSE LET u == p[x][1]
           rest == Back(m, p, a, u, fuel - 1)
       IN [ok |-> rest.ok /\ m[u][x] # Inf,
           steps |-> rest.steps + 1,
           weight |-> rest.weight + (IF m[u][x] # Inf THEN m[u][x] ELSE 0)]

Done == pc = "done"

(***************************************************************************)
(* calculPCCSommet: C1, C2, C3, C10 (under SpecDijkstra).                  *)
(***************************************************************************)

\* C1: with weights >= 0, the distances returned by calculPCCSommet(s) are,
\* for every vertex v, the least weight of a directed path from s to v (0
\* for v = s), and infinity exactly when no path from s to v exists.
C1_ShortestDistances ==
  (Done /\ NonNeg(matrice)) =>
    /\ loc_distances[loc_s] = 0
    /\ \A v \in DOMAIN matrice :
         /\ loc_distances[v] = ShortestDistance(matrice, loc_s)[v]
         /\ (loc_distances[v] = Inf) <=> ~Reachable(matrice, loc_s, v)

\* A run whose shortest path to some vertex is lighter than the direct edge.
C1_Witness ==
  /\ Done /\ NonNeg(matrice)
  /\ \E v \in DOMAIN matrice :
       matrice[loc_s][v] # Inf /\ loc_distances[v] < matrice[loc_s][v]
  /\ \E v \in DOMAIN matrice : loc_distances[v] = Inf

\* C2: with weights >= 0, from every vertex v reachable from s the
\* predecessors lead back to s in finitely many steps, each step along an
\* edge of the matrix, and the weights of these edges add up to distance[v].
C2_PredecessorPath ==
  (Done /\ NonNeg(matrice)) =>
    \A v \in DOMAIN matrice :
      Reachable(matrice, loc_s, v) =>
        LET b == Back(matrice, loc_predecesseurs, loc_s, v, nb_sommets(matrice))
        IN b.ok /\ b.weight = loc_distances[v]

\* A run with a predecessor path of two edges, one of them of weight 0.
C2_Witness ==
  /\ Done /\ NonNeg(matrice)
  /\ \E v \in DOMAIN matrice :
       /\ Reachable(matrice, loc_s, v)
       /\ Back(matrice, loc_predecesseurs, loc_s, v, nb_sommets(matrice)).steps = 2
       /\ loc_distances[v] = 1

\* C3: a vertex that cannot be reached from s has distance infinity and no
\* predecessor; with weights >= 0 the source has distance 0 and no
\* predecessor, and every distance is >= 0.
C3_UnreachableAndSource ==
  Done =>
    /\ \A v \in DOMAIN matrice :
         ~Reachable(matrice, loc_s, v) =>
           loc_distances[v] = Inf /\ loc_predecesseurs[v] = None
    /\ NonNeg(matrice) =>
         /\ loc_predecesseurs[loc_s] = None
         /\ loc_distances[loc_s] = 0
         /\ \A v \in DOMAIN matrice : loc_distances[v] >= 0

\* A run with an unreachable vertex, a reached one, and an edge of weight 0
\* back to the source.
C3_Witness ==
  /\ Done /\ NonNeg(matrice)
  /\ \E v \in DOMAIN matrice : ~Reachable(matrice, loc_s, v)
  /\ \E v \in DOMAIN matrice :
       v # loc_s /\ loc_predecesseurs[v] # None /\ matrice[v][loc_s] = 0

\* C10: every vertex is removed from unvisited exactly once and the loop
\* ends after exactly n iterations; with weights >= 0 the vertices are
\* removed in non-decreasing order of tentative distance, and the distance
\* and predecessor of a removed vertex never change afterwards.
C10_LoopOrder ==
  /\ pc # "idle" =>
       /\ Len(removed) + Cardinality(loc_unvisited) = nb_sommets(matrice)
       /\ \A i, j \in 1..Len(removed) : removed[i].node = removed[j].node => i = j
       /\ \A i \in 1..Len(removed) : removed[i].node \notin loc_unvisited
  /\ Done => Len(removed) = nb_sommets(matrice) /\ loc_unvisited = {}
  /\ (pc # "idle" /\ NonNeg(matrice)) =>
       /\ \A i, j \in 1..Len(removed) :
            i <= j => removed[i].distance <= removed[j].distance
       /\ \A i \in 1..Len(removed) :
            /\ loc_distances[removed[i].node] = removed[i].distance
            /\ loc_predecesseurs[removed[i].node] = removed[i].predecesseur

\* A finished run on three vertices removed at the distances 0, 1, 2, with
\* an edge from the last one back to the first.
C10_Witness ==
  /\ Done /\ NonNeg(matrice)
  /\ Len(removed) = 3
  /\ removed[1].distance = 0 /\ removed[2].distance = 1 /\ removed[3].distance = 2
  /\ matrice[removed[3].node][removed[1].node] # Inf

(***************************************************************************)
(* GrapheValue and ReseauSocial: C4 to C9 (under Spec).                    *)
(***************************************************************************)

\* v has no edge to or from another vertex, and no loop.
Isolated(m, v) == \A u \in DOMAIN m : m[v][u] = Inf /\ m[u][v] = Inf

\* C4: est_connexe() is true if and only if cc_graphe() has exactly one
\* element and that element holds all the vertices; a graph with an
\* isolated vertex and at least one other vertex is not connected.
C4_EstConnexe ==
  op = "est_connexe" =>
    LET cc == cc_graphe(matrice)
    IN /\ result <=> (Len(cc) = 1 /\ cc[1] = DOMAIN matrice)
       /\ (nb_sommets(matrice) >= 2 /\ \E v \in DOMAIN matrice : Isolated(matrice, v))
            => result = FALSE

\* est_connexe() answered false on three vertices, one isolated, two joined.
C4_Witness ==
  /\ op = "est_connexe" /\ result = FALSE
  /\ nb_sommets(matrice) = 3
  /\ \E v \in DOMAIN matrice : Isolated(matrice, v)
  /\ Edges(matrice) # {}

Greatest(S) == CHOOSE x \in S : \A y \in S : x >= y

\* The first, in list order, of the largest sets of the list cc.
FirstLargest(cc) ==
  LET big == Greatest({Cardinality(cc[k]) : k \in 1..Len(cc)})
  IN cc[Least({k \in 1..Len(cc) : Cardinality(cc[k]) = big})]

\* res is a k x k matrix, and some bijection between 0..k-1 and the set comp
\* carries each entry of res to the equal entry of m.
SubgraphOn(res, m, comp, k) ==
  /\ DOMAIN res = 0..(k - 1)
  /\ \A i \in DOMAIN res : DOMAIN res[i] = 0..(k - 1)
  /\ \E f \in Enumerations(comp) :
       \A i, j \in 0..(k - 1) : res[i][j] = m[f[i + 1]][f[j + 1]]

\* C5: on a graph with at least one vertex, plus_grosse_cc() returns a graph
\* with as many vertices as the first largest set of cc_graphe(), and some
\* bijection between its indices and the members of that set carries every
\* entry of the result to the equal entry of the original matrix (an edge
\* for an edge with the same weight, no edge for no edge).
C5_PlusGrosseCc ==
  (op = "plus_grosse_cc" /\ nb_sommets(matrice) >= 1) =>
    /\ exc = "none"
    /\ \A comp \in {FirstLargest(cc_graphe(matrice))} :
         SubgraphOn(result, matrice, comp, Cardinality(comp))

\* plus_grosse_cc() returned two of three vertices, with an edge between
\* them, the vertex left out having a loop.
C5_Witness ==
  /\ op = "plus_grosse_cc" /\ exc = "none"
  /\ nb_sommets(matrice) = 3 /\ nb_sommets(result) = 2
  /\ Edges(result) # {}
  /\ \E v \in DOMAIN matrice : matrice[v][v] # Inf /\ Cardinality(Edges(matrice)) = 2

\* The list cc is a partition of the vertices of m whose sets are the
\* classes of the relation Same.
PartitionBy(cc, m, Same(_, _)) ==
  /\ \A k \in 1..Len(cc) : cc[k] # {}
  /\ \A k, l \in 1..Len(cc) : k # l => cc[k] \cap cc[l] = {} /\ cc[k] # cc[l]
  /\ UNION {cc[k] : k \in 1..Len(cc)} = DOMAIN m
  /\ \A u, v \in DOMAIN m :
       (\E k \in 1..Len(cc) : u \in cc[k] /\ v \in cc[k]) <=> Same(u, v)

\* C6: cc_graphe() is a partition of the vertices (sets non-empty, pairwise
\* disjoint, none twice, union 0..n-1) in which two vertices share a set
\* exactly when a path ignoring edge direction joins them; cfc_graphe() is
\* one for mutual reachability along directed edges.
C6_Partitions ==
  /\ op = "cc_graphe" =>
       LET Same(u, v) == Joined(matrice, u, v)
       IN PartitionBy(result, matrice, Same)
  /\ op = "cfc_graphe" =>
       LET Same(u, v) == Reachable(matrice, u, v) /\ Reachable(matrice, v, u)
       IN PartitionBy(result, matrice, Same)

\* cfc_graphe() on a graph in one piece that is not strongly connected and
\* has a strongly connected component of two vertices.
C6_Witness ==
  /\ op = "cfc_graphe"
  /\ nb_sommets(matrice) = 3 /\ Len(result) = 2
  /\ Len(cc_graphe(matrice)) = 1

PerVertex ==
  {"degre_sommet", "successeurs", "predecesseurs", "descendants", "ascendants",
   "cc_sommet", "calculPCCSommet", "proximite_sommet"}

\* C7: every per-vertex query called with an index >= nb_sommets() or < 0
\* raises an out-of-range error and returns nothing.
C7_OutOfRangeRaises ==
  (op \in PerVertex /\ arg \notin DOMAIN matrice) => exc = "IndexError"

\* The finite entries of the distances stored by the algorithm.
FiniteDistances ==
  {self_distances[k][v] : k \in 1..nb_sommets(matrice), v \in DOMAIN matrice} \ {Inf}

\* C8: diametre() returns the largest finite entry of the all-pairs distance
\* matrix, on disconnected graphs too (stated for graphs with a vertex and
\* weights >= 0).
C8_DiametreLargestFinite ==
  (op = "diametre" /\ nb_sommets(matrice) >= 1 /\ NonNeg(matrice)) =>
    result = Greatest(FiniteDistances)

\* C9: no call changes the receiver's matrix or the matrices stored by the
\* algorithm: graphe_symetrique and plus_grosse_cc write into the matrix
\* they return only.
C9_Frame ==
  [][/\ matrice' = matrice
     /\ self_distances' = self_distances
     /\ self_predecesseurs' = self_predecesseurs]_vars

\* graphe_symetrique() returned a matrix that differs from the receiver's.
C9_Witness ==
  /\ op = "graphe_symetrique"
  /\ result # matrice
  /\ self_distances = calculPCCTousSommets(matrice)[1]

====
